---- MODULE Spec2Model ----
(***************************************************************************)
(* statistics.cpp: six running statistics (min, max, mean, std, pct90,     *)
(* pct95) over the doubles read from standard input.                       *)
(*                                                                         *)
(* `double` is modelled as a binary floating-point format of the IEEE-754  *)
(* kind with a reduced significand: Precision significand bits, exponents  *)
(* 0..EMax over a least unit of 2^-FracBits, round-to-nearest-even, gradual*)
(* underflow, overflow to infinity, and a NaN.  A finite double is held as *)
(* the integer number of least units it is worth.                          *)
(*                                                                         *)
(* Spec     main, on every stream of at most MaxInput characters.          *)
(* SpecAcc  the six objects fed every sequence of at most MaxLen doubles.  *)
(* SpecPct  Min, Max, Pct90 and Pct95 fed every sequence of at most        *)
(*          MaxPctLen doubles, the history kept as a multiset.             *)
(* SpecIdx  the index a percentile's eval() computes, by vector size.      *)
(***************************************************************************)
EXTENDS Integers, Sequences, FiniteSets

\* ------------------------------------------------------------------ bounds
Precision == 3
EMax == 5
FracBits == 2
\* longest input stream, in characters
MaxInput == 5
\* longest sequence of update calls of the accumulator specification
MaxLen == 3
\* largest whole number fed to the accumulators directly
MaxVal == 6
\* longest sequence of update calls of the percentile specification
MaxPctLen == 21
\* largest small vector size of the index specification
MaxSize == 40

\* ------------------------------------------------------------- the doubles
Pow2(n) == 2 ^ n

\* 1.0 in least units
Scale == Pow2(FracBits)

\* std::numeric_limits<double>::max() and lowest()
DBL_MAX == (Pow2(Precision) - 1) * Pow2(EMax)
DBL_LOWEST == -DBL_MAX

\* +infinity, and NAN of <cmath>; -Inf is -infinity
Inf == Pow2(Precision) * Pow2(EMax)
NaN == 2 * Inf

IsFinite(x) == x # NaN /\ x # Inf /\ x # -Inf

\* the finite doubles
Doubles ==
    {s * m * Pow2(e) : s \in {-1, 1}, m \in 0..(Pow2(Precision) - 1), e \in 0..EMax}

AllDoubles == Doubles \cup {Inf, -Inf, NaN}

\* The binade of n/d >= 0: the least e with n/d < 2^(Precision+e), EMax+1 if none.
Binade(n, d) ==
    CHOOSE e \in 0..(EMax + 1) :
        /\ e = EMax + 1 \/ n < d * Pow2(Precision + e)
        /\ \A f \in 0..(e - 1) : ~(n < d * Pow2(Precision + f))

\* n/d >= 0 rounded to the nearest double, ties to the even significand
RoundMag(n, d) ==
    LET e == Binade(n, d)
    IN  IF e > EMax THEN Inf
        ELSE LET u == d * Pow2(e)
                 q == n \div u
                 r == n - q * u
                 m == IF 2 * r > u \/ (2 * r = u /\ q % 2 = 1) THEN q + 1 ELSE q
                 v == m * Pow2(e)
             IN  IF v > DBL_MAX THEN Inf ELSE v

\* the rational n/d (d > 0), in least units, as the double an operation returns
RoundQ(n, d) == IF n < 0 THEN -RoundMag(-n, d) ELSE RoundMag(n, d)

FNeg(a) == IF a = NaN THEN NaN ELSE -a

\* a + b
FAdd(a, b) ==
    IF a = NaN \/ b = NaN THEN NaN
    ELSE IF ~IsFinite(a) /\ ~IsFinite(b) THEN (IF a = b THEN a ELSE NaN)
    ELSE IF ~IsFinite(a) THEN a
    ELSE IF ~IsFinite(b) THEN b
    ELSE RoundQ(a + b, 1)

\* a - b
FSub(a, b) == FAdd(a, FNeg(b))

\* a / n for an int n > 0 (converted to double exactly)
FDivInt(a, n) ==
    IF a = NaN THEN NaN
    ELSE IF ~IsFinite(a) THEN a
    ELSE RoundQ(a, n)

\* std::pow(a, 2)
FPow2(a) ==
    IF a = NaN THEN NaN
    ELSE IF ~IsFinite(a) THEN Inf
    ELSE RoundQ(a * a, Scale)

\* floor of the square root of the natural number y
ISqrt(y) == CHOOSE r \in 0..y : r * r <= y /\ y < (r + 1) * (r + 1)

\* std::sqrt(a), correctly rounded
FSqrt(a) ==
    IF a = NaN \/ a < 0 THEN NaN
    ELSE IF a = Inf THEN Inf
    ELSE LET y == a * Scale
             e == CHOOSE k \in 0..(EMax + 1) :
                      /\ y < Pow2(2 * (Precision + k))
                      /\ \A f \in 0..(k - 1) : ~(y < Pow2(2 * (Precision + f)))
             q == ISqrt(y \div Pow2(2 * e))
             mid == (2 * q + 1) * (2 * q + 1) * Pow2(2 * e)
             m == IF 4 * y > mid \/ (4 * y = mid /\ q % 2 = 1) THEN q + 1 ELSE q
         IN  m * Pow2(e)

\* a < b and a > b on doubles: false when either is NaN
FLess(a, b) == a # NaN /\ b # NaN /\ a < b
FGreater(a, b) == FLess(b, a)

\* ------------------------------------------------------------------- int
\* the range of int
IntMax == 2147483647
IntMin == -IntMax - 1

\* floor(a * b / 100.0) for ints a >= 0, b > 0: the int product a * b, divided
\* in double (which never rounds a quotient of an int by 100 across a whole
\* number), then floored.  Signed overflow of a * b is undefined: the build may
\* wrap the product to 32 bits or (computing wider) keep it.  With over the
\* excess of a * b over IntMax, the wrapped product is IntMin + over - 1.
FloorMulDiv100(a, b) ==
    IF a <= (IntMax \div b)
    THEN {(a * b) \div 100}
    ELSE LET over == (b * (a - (IntMax \div b))) - (IntMax % b)
         IN  {(IntMin + (over - 1)) \div 100,
              (IntMax \div 100) + (((IntMax % 100) + over) \div 100)}

\* ------------------------------------------------------------ accumulators
statistics_count == 6

\* name() of statistics[k]
name(k) == <<"min", "max", "mean", "std", "pct90", "pct95">>[k + 1]

\* Min
MinInit == DBL_MAX
MinUpdate(m_min, next) == IF FLess(next, m_min) THEN next ELSE m_min
MinEval(m_min) == m_min

\* Max
MaxInit == DBL_LOWEST
\* Max::update with a seeded fault: Min's comparison copied unturned
MaxUpdateCopied(m_max, next) == IF FLess(next, m_max) THEN next ELSE m_max
MaxUpdate(m_max, next) == IF FGreater(next, m_max) THEN next ELSE m_max
MaxEval(m_max) == m_max

\* Mean: m_count is an int, far from its range within the bounds here
MeanInit == [m_count |-> 0, m_sum |-> 0]
\* Mean::update with a seeded fault: m_sum = next for m_sum += next
MeanUpdateAssign(mean, next) == [m_count |-> mean.m_count + 1, m_sum |-> next]
MeanUpdate(mean, next) ==
    [m_count |-> mean.m_count + 1, m_sum |-> FAdd(mean.m_sum, next)]
MeanEval(mean) ==
    IF mean.m_count = 0 THEN NaN ELSE FDivInt(mean.m_sum, mean.m_count)

\* for (const double& val : values) mean.update(val), from the accumulator acc
RECURSIVE UpdateEach(_, _)
UpdateEach(acc, values) ==
    IF values = <<>> THEN acc
    ELSE UpdateEach(MeanUpdate(acc, Head(values)), Tail(values))

\* Std
StdInit == <<>>
StdUpdate(values, next) == Append(values, next)
StdEval(values) ==
    IF values = <<>> THEN NaN
    ELSE LET mean_ == UpdateEach(MeanInit, values)
             mean == MeanEval(mean_)
             squares == [k \in DOMAIN values |-> FPow2(FSub(values[k], mean))]
             disp == UpdateEach(MeanInit, squares)
         IN  FSqrt(MeanEval(disp))

\* while (pos != values.end() && *pos < next) { ++pos; ++i; }, from offset i
RECURSIVE ScanPos(_, _, _)
ScanPos(values, next, i) ==
    IF i < Len(values) /\ FLess(values[i + 1], next)
    THEN ScanPos(values, next, i + 1)
    ELSE i

\* values.insert(pos, next), pos at offset i
\* the insertion with a seeded fault: *pos = next for values.insert(pos, next)
InsertOverwrite(values, i, next) ==
    IF i < Len(values) THEN [values EXCEPT ![i + 1] = next] ELSE Append(values, next)
Insert(values, i, next) ==
    SubSeq(values, 1, i) \o <<next>> \o SubSeq(values, i + 1, Len(values))

\* values[pos]: a read outside the vector is undefined, any double may come back
ValueAt(values, pos) ==
    IF pos \in 0..(Len(values) - 1) THEN {values[pos + 1]} ELSE AllDoubles

\* Pct90
Pct90Init == <<>>
Pct90Update(values, next) == Insert(values, ScanPos(values, next, 0), next)

\* int pos90 = floor(size * 90 / 100.0): the values it can take
Pct90Pos(size) == FloorMulDiv100(size, 90)

\* the values eval() can return; int size = values.size() keeps every size here
Pct90Eval(values) ==
    IF values = <<>> THEN {NaN}
    ELSE UNION {ValueAt(values, pos90) : pos90 \in Pct90Pos(Len(values))}

\* Pct95
Pct95Init == <<>>
Pct95Update(values, next) == Insert(values, ScanPos(values, next, 0), next)
\* pos95 with a seeded fault: round for floor
Pct95PosRound(size) == {((size * 95) + 50) \div 100}
Pct95Pos(size) == FloorMulDiv100(size, 95)
Pct95Eval(values) ==
    IF values = <<>> THEN {NaN}
    ELSE UNION {ValueAt(values, pos95) : pos95 \in Pct95Pos(Len(values))}

\* statistics[k] = new ...{}
Construct(k) ==
    CASE k = 0 -> MinInit
      [] k = 1 -> MaxInit
      [] k = 2 -> MeanInit
      [] k = 3 -> StdInit
      [] k = 4 -> Pct90Init
      [] k = 5 -> Pct95Init

\* statistics[k]->update(next), on the object state obj
Update(k, obj, next) ==
    CASE k = 0 -> MinUpdate(obj, next)
      [] k = 1 -> MaxUpdate(obj, next)
      [] k = 2 -> MeanUpdate(obj, next)
      [] k = 3 -> StdUpdate(obj, next)
      [] k = 4 -> Pct90Update(obj, next)
      [] k = 5 -> Pct95Update(obj, next)

\* the values statistics[k]->eval() can return
Eval(k, obj) ==
    CASE k = 0 -> {MinEval(obj)}
      [] k = 1 -> {MaxEval(obj)}
      [] k = 2 -> {MeanEval(obj)}
      [] k = 3 -> {StdEval(obj)}
      [] k = 4 -> Pct90Eval(obj)
      [] k = 5 -> Pct95Eval(obj)

\* --------------------------------------------------------- std::cin >> val
\* The characters of a stream: two digits, the sign, a character no number
\* holds, and whitespace.
Alphabet == {"1", "5", "-", "z", " "}
IsDigit(c) == c \in {"1", "5"}
DigitVal(c) == IF c = "1" THEN 1 ELSE 5

RECURSIVE Decimal(_)
Decimal(digits) ==
    IF digits = <<>> THEN 0
    ELSE 10 * Decimal(SubSeq(digits, 1, Len(digits) - 1)) + DigitVal(digits[Len(digits)])

\* the sentry skips leading whitespace
RECURSIVE SkipWs(_, _)
SkipWs(s, p) == IF p <= Len(s) /\ s[p] = " " THEN SkipWs(s, p + 1) ELSE p

\* num_get takes digits while they come
RECURSIVE ScanDigits(_, _)
ScanDigits(s, p) == IF p <= Len(s) /\ IsDigit(s[p]) THEN ScanDigits(s, p + 1) ELSE p

good(eof, fail) == ~eof /\ ~fail

\* operator>>(double&) on the stream s at position p with the flags eof, fail:
\* the position, flags and value of val after it
Extract(s, p, eof, fail, v) ==
    IF ~good(eof, fail)
    THEN [pos |-> p, eofbit |-> eof, failbit |-> TRUE, val |-> v]
    ELSE LET p1 == SkipWs(s, p)
         IN  IF p1 > Len(s)
             THEN [pos |-> p1, eofbit |-> TRUE, failbit |-> TRUE, val |-> v]
             ELSE LET neg == s[p1] = "-"
                      p2 == IF neg THEN p1 + 1 ELSE p1
                      p3 == ScanDigits(s, p2)
                      atEnd == p3 > Len(s)
                      mag == Decimal(SubSeq(s, p2, p3 - 1))
                      d == RoundQ((IF neg THEN -mag ELSE mag) * Scale, 1)
                  IN  IF p3 = p2
                      THEN [pos |-> p3, eofbit |-> atEnd, failbit |-> TRUE, val |-> 0]
                      ELSE IF ~IsFinite(d)
                      THEN [pos |-> p3, eofbit |-> atEnd, failbit |-> TRUE,
                            val |-> IF neg THEN DBL_LOWEST ELSE DBL_MAX]
                      ELSE [pos |-> p3, eofbit |-> atEnd, failbit |-> FALSE, val |-> d]

\* if (!std::cin.eof() && !std::cin.good())
\* the check with a seeded fault: the eof() test left out
InvalidInputNoEof(eof, fail) == ~good(eof, fail)
InvalidInput(eof, fail) == ~eof /\ ~good(eof, fail)

\* ++i of the loops over statistics
\* ++i with a seeded fault: the index advanced twice a round
LoopSkip(k) == k + 2
LoopNext(k) == k + 1

\* ------------------------------------------------------------------- state
VARIABLES
    input,       \* standard input, a sequence of characters
    pos,         \* the stream's read position, 1..Len(input)+1
    eofbit,      \* std::cin's eofbit
    failbit,     \* std::cin's failbit
    val,         \* double val of main
    pc,          \* where main is
    i,           \* size_t i of the loop main is in
    statistics,  \* statistics[k]: the state of the k-th object
    alive,       \* the k with statistics[k] allocated and not yet deleted
    out,         \* the lines written to std::cout, <<name, value>> each
    err,         \* the lines written to std::cerr
    ret,         \* main's return value, -1 before it returns
    parsed,      \* history: the values std::cin >> val extracted, in order
    seen,        \* history: seen[k], the values passed to statistics[k]->update
    bag,         \* history: how often each value was passed to update
    size,        \* int size of a percentile's eval()
    index        \* index[k]: the int pos90/pos95 statistics[k]->eval() computed

vars == <<input, pos, eofbit, failbit, val, pc, i, statistics, alive, out, err,
          ret, parsed, seen, bag, size, index>>

Objects == 0..(statistics_count - 1)

\* every stream of at most n characters
Streams(n) == UNION {[1..k -> Alphabet] : k \in 0..n}

\* main up to the read loop: the six objects constructed, val = 0
Constructed ==
    /\ pos = 1
    /\ eofbit = FALSE
    /\ failbit = FALSE
    /\ val = 0
    /\ i = 0
    /\ statistics = [k \in Objects |-> Construct(k)]
    /\ alive = Objects
    /\ out = <<>>
    /\ err = <<>>
    /\ ret = -1
    /\ parsed = <<>>
    /\ seen = [k \in Objects |-> <<>>]
    /\ bag = <<>>
    /\ size = 0
    /\ index = <<>>

Init ==
    /\ input \in Streams(MaxInput)
    /\ pc = "read"
    /\ Constructed

\* while (std::cin >> val)
Read ==
    /\ pc = "read"
    /\ LET r == Extract(input, pos, eofbit, failbit, val)
       IN  /\ pos' = r.pos
           /\ eofbit' = r.eofbit
           /\ failbit' = r.failbit
           /\ val' = r.val
           /\ IF r.failbit
              THEN pc' = "check" /\ parsed' = parsed
              ELSE pc' = "update" /\ parsed' = Append(parsed, r.val)
    /\ i' = 0
    /\ UNCHANGED <<input, statistics, alive, out, err, ret, seen, bag, size, index>>

\* one round of for (i = 0; i < statistics_count; ++i) statistics[i]->update(val)
UpdateStep ==
    /\ pc = "update"
    /\ i < statistics_count
    /\ statistics' = [statistics EXCEPT ![i] = Update(i, @, val)]
    /\ seen' = [seen EXCEPT ![i] = Append(@, val)]
    /\ i' = LoopNext(i)
    /\ pc' = IF LoopNext(i) < statistics_count THEN "update" ELSE "read"
    /\ UNCHANGED <<input, pos, eofbit, failbit, val, alive, out, err, ret, parsed,
                   bag, size, index>>

\* the check after the loop: the diagnostic and return 1, or on to the results
Check ==
    /\ pc = "check"
    /\ IF InvalidInput(eofbit, failbit)
       THEN /\ err' = Append(err, "Invalid input data")
            /\ ret' = 1
            /\ pc' = "done"
       ELSE /\ pc' = "print"
            /\ UNCHANGED <<err, ret>>
    /\ i' = 0
    /\ UNCHANGED <<input, pos, eofbit, failbit, val, statistics, alive, out, parsed,
                   seen, bag, size, index>>

\* one round of the loop that prints name() = eval()
Report ==
    /\ pc = "print"
    /\ i < statistics_count
    /\ \E r \in Eval(i, statistics[i]) : out' = Append(out, <<name(i), r>>)
    /\ i' = IF LoopNext(i) < statistics_count THEN LoopNext(i) ELSE 0
    /\ pc' = IF LoopNext(i) < statistics_count THEN "print" ELSE "delete"
    /\ UNCHANGED <<input, pos, eofbit, failbit, val, statistics, alive, err, ret,
                   parsed, seen, bag, size, index>>

\* one round of the loop that deletes the objects; after the last, return 0
Delete ==
    /\ pc = "delete"
    /\ i < statistics_count
    /\ alive' = alive \ {i}
    /\ i' = LoopNext(i)
    /\ IF LoopNext(i) < statistics_count
       THEN pc' = "delete" /\ ret' = ret
       ELSE pc' = "done" /\ ret' = 0
    /\ UNCHANGED <<input, pos, eofbit, failbit, val, statistics, out, err, parsed,
                   seen, bag, size, index>>

Next == Read \/ UpdateStep \/ Check \/ Report \/ Delete

Spec == Init /\ [][Next]_vars

\* ----------------------------------------- the accumulators, fed directly
\* the doubles fed: the whole numbers up to MaxVal
Vals == {k * Scale : k \in (-MaxVal)..MaxVal} \cap Doubles

InitAcc ==
    /\ input = <<>>
    /\ pc = "acc"
    /\ Constructed

\* the body of the read loop for one value: update(next) on each object
UpdateAll ==
    /\ pc = "acc"
    /\ Len(seen[0]) < MaxLen
    /\ \E next \in Vals :
        /\ statistics' = [k \in Objects |-> Update(k, statistics[k], next)]
        /\ seen' = [k \in Objects |-> Append(seen[k], next)]
        /\ val' = next
    /\ UNCHANGED <<input, pos, eofbit, failbit, pc, i, alive, out, err, ret, parsed,
                   bag, size, index>>

SpecAcc == InitAcc /\ [][UpdateAll]_vars

\* ----------- the objects whose state forgets the arrival order, fed directly
\* the doubles fed: two ordinary ones and the two extreme doubles
PctVals == {DBL_LOWEST, 0, Scale, DBL_MAX}

InitPct ==
    /\ input = <<>>
    /\ pc = "pct"
    /\ Constructed

\* update(next) on Min, Max, Pct90 and Pct95, over long sequences of values
PctUpdate ==
    /\ pc = "pct"
    /\ Len(statistics[4]) < MaxPctLen
    /\ \E next \in PctVals :
        /\ statistics' = [k \in Objects |->
                             IF k \in {0, 1, 4, 5} THEN Update(k, statistics[k], next)
                             ELSE statistics[k]]
        /\ bag' = [v \in PctVals |-> (IF v \in DOMAIN bag THEN bag[v] ELSE 0)
                                     + (IF v = next THEN 1 ELSE 0)]
        /\ val' = next
    /\ UNCHANGED <<input, pos, eofbit, failbit, pc, i, alive, out, err, ret, parsed,
                   seen, size, index>>

SpecPct == InitPct /\ [][PctUpdate]_vars

\* ------------------------------------------- the index eval() reads, by size
\* the sizes a percentile's vector is given: the small ones, and those around
\* the largest whose product with 95 and with 90 is an int
Sizes ==
    (1..MaxSize)
    \cup {IntMax \div 95, (IntMax \div 95) + 1, IntMax \div 90, (IntMax \div 90) + 1}

InitIdx ==
    /\ input = <<>>
    /\ pc = "idx"
    /\ pos = 1
    /\ eofbit = FALSE
    /\ failbit = FALSE
    /\ val = 0
    /\ i = 0
    /\ statistics = [k \in Objects |-> Construct(k)]
    /\ alive = Objects
    /\ out = <<>>
    /\ err = <<>>
    /\ ret = -1
    /\ parsed = <<>>
    /\ seen = [k \in Objects |-> <<>>]
    /\ bag = <<>>
    /\ size \in Sizes
    /\ index = [k \in {} |-> 0]

\* int pos90 = floor(size * 90 / 100.0) of Pct90::eval on a vector of size values
EvalPos90 ==
    /\ pc = "idx"
    /\ 4 \notin DOMAIN index
    /\ \E pos90 \in Pct90Pos(size) :
        index' = [k \in DOMAIN index \cup {4} |-> IF k = 4 THEN pos90 ELSE index[k]]
    /\ UNCHANGED <<input, pos, eofbit, failbit, val, pc, i, statistics, alive, out,
                   err, ret, parsed, seen, bag, size>>

\* int pos95 = floor(size * 95 / 100.0) of Pct95::eval on a vector of size values
EvalPos95 ==
    /\ pc = "idx"
    /\ 5 \notin DOMAIN index
    /\ \E pos95 \in Pct95Pos(size) :
        index' = [k \in DOMAIN index \cup {5} |-> IF k = 5 THEN pos95 ELSE index[k]]
    /\ UNCHANGED <<input, pos, eofbit, failbit, val, pc, i, statistics, alive, out,
                   err, ret, parsed, seen, bag, size>>

NextIdx == EvalPos90 \/ EvalPos95

SpecIdx == InitIdx /\ [][NextIdx]_vars

\* ------------------------------------------------- vocabulary of the claims
Range(s) == {s[k] : k \in DOMAIN s}
Front(s) == SubSeq(s, 1, Len(s) - 1)
Last(s) == s[Len(s)]
Least(a, b) == IF a <= b THEN a ELSE b

IsSorted(s) == \A a, b \in DOMAIN s : a < b => s[a] <= s[b]

\* every arrival order of the values of s
Perms(s) ==
    LET n == Len(s)
        Bij == {p \in [1..n -> 1..n] : \A a, b \in 1..n : a # b => p[a] # p[b]}
    IN  {[k \in 1..n |-> s[p[k]]] : p \in Bij}

\* how often v was passed to update, by the history b
BagCount(b, v) == IF v \in DOMAIN b THEN b[v] ELSE 0

\* the values passed to update, by the history b
BagValues(b) == {v \in DOMAIN b : b[v] > 0}

\* how many of the values of the history b satisfy Q
CountWhere(b, Q(_)) ==
    LET RECURSIVE Sum(_)
        Sum(S) == IF S = {} THEN 0
                  ELSE LET x == CHOOSE y \in S : TRUE
                       IN  (IF Q(x) THEN b[x] ELSE 0) + Sum(S \ {x})
    IN  Sum(DOMAIN b)

\* how many values were passed to update, by the history b
BagSize(b) == CountWhere(b, LAMBDA v : TRUE)

\* the element at index k (from 0) of the ascending sort of the history b
Rank(b, k) ==
    CHOOSE x \in DOMAIN b :
        /\ b[x] > 0
        /\ LET Below(y) == y < x
               UpTo(y) == y <= x
           IN  CountWhere(b, Below) <= k /\ k < CountWhere(b, UpTo)

\* the sum of s as a number, nothing rounded
RECURSIVE ExactSum(_)
ExactSum(s) == IF s = <<>> THEN 0 ELSE ExactSum(Front(s)) + Last(s)

\* the sum of s as the doubles add up, left to right
RECURSIVE FoldSum(_)
FoldSum(s) == IF s = <<>> THEN 0 ELSE FAdd(FoldSum(Front(s)), Last(s))

\* no addition of the left-to-right sum of s rounds
PartialSumsExact(s) == \A k \in 1..Len(s) : ExactSum(SubSeq(s, 1, k)) \in Doubles

\* the whitespace-separated tokens of a stream, in order
RECURSIVE TokenSeq(_)
TokenSeq(s) ==
    IF s = <<>> THEN <<>>
    ELSE IF Head(s) = " " THEN TokenSeq(Tail(s))
    ELSE LET e == CHOOSE k \in 1..Len(s) :
                      /\ \A j \in 1..k : s[j] # " "
                      /\ k = Len(s) \/ s[k + 1] = " "
         IN  <<SubSeq(s, 1, e)>> \o TokenSeq(SubSeq(s, e + 1, Len(s)))

\* a token is numeric: an optional sign, then one digit or more
Digits(t) == IF t[1] = "-" THEN Tail(t) ELSE t
IsNumeric(t) == Digits(t) # <<>> /\ \A k \in DOMAIN Digits(t) : IsDigit(Digits(t)[k])

\* the double a numeric token stands for, an infinity if beyond the doubles
TokenValue(t) ==
    RoundQ((IF t[1] = "-" THEN -1 ELSE 1) * Decimal(Digits(t)) * Scale, 1)

HasMalformedToken(s) == \E k \in DOMAIN TokenSeq(s) : ~IsNumeric(TokenSeq(s)[k])

\* every token parses as a double
CleanInput(s) ==
    \A k \in DOMAIN TokenSeq(s) :
        IsNumeric(TokenSeq(s)[k]) /\ IsFinite(TokenValue(TokenSeq(s)[k]))

TokenValues(s) == [k \in DOMAIN TokenSeq(s) |-> TokenValue(TokenSeq(s)[k])]

Names == [k \in 1..statistics_count |-> name(k - 1)]

\* ------------------------------------------------------------------ claims

\* C1: a stream holding a malformed (non-numeric) token, wherever it stands,
\* ends in return 1 with the diagnostic on std::cerr, and never prints a
\* statistic line.
C1_MalformedRejected ==
    HasMalformedToken(input) =>
        /\ out = <<>>
        /\ pc = "done" => ret = 1 /\ err = <<"Invalid input data">>

\* C2: when the stream ends cleanly with no value ingested, main returns 0 and
\* each of the six lines carries NAN.
C2_EmptyInputAllNaN ==
    (pc = "done" /\ TokenSeq(input) = <<>>) =>
        /\ ret = 0
        /\ Len(out) = statistics_count
        /\ \A k \in 1..statistics_count : out[k] = <<Names[k], NaN>>

C4_MinMaxBound ==
    LET mn == MinEval(statistics[0])
        mx == MaxEval(statistics[1])
    IN  BagSize(bag) >= 1 =>
            /\ \A v \in BagValues(bag) : mn <= v /\ v <= mx
            /\ mn \in BagValues(bag)
            /\ mx \in BagValues(bag)
            /\ BagSize(bag) = 1 => mn = val /\ mx = val

\* C4 witness: the first value was the lowest double, which the initial
\* maximum equals, and a later value raised the maximum.
C4_Witness ==
    /\ BagSize(bag) = 2
    /\ bag[DBL_LOWEST] = 1
    /\ val = Scale
    /\ MinEval(statistics[0]) = DBL_LOWEST
    /\ MaxEval(statistics[1]) = Scale

\* C5: nothing is printed before the stream is consumed and every value is
\* ingested by every object; on clean exhaustion main returns 0 having printed
\* exactly one line per object, in the order min, max, mean, std, pct90, pct95,
\* each the eval() of the object that ingested all the values of the stream.
C5_CleanExhaustion ==
    /\ out # <<>> =>
        /\ pos > Len(input)
        /\ \A k \in Objects : seen[k] = parsed
    /\ (pc = "done" /\ CleanInput(input)) =>
        /\ ret = 0
        /\ err = <<>>
        /\ Len(out) = statistics_count
        /\ \A k \in Objects :
            /\ seen[k] = TokenValues(input)
            /\ out[k + 1][1] = Names[k + 1]
            /\ out[k + 1][2] \in Eval(k, statistics[k])

\* C5 witness: main has returned on a clean stream of two different values.
C5_Witness ==
    /\ pc = "done"
    /\ CleanInput(input)
    /\ Len(parsed) = 2
    /\ parsed[1] # parsed[2]
    /\ Len(out) = statistics_count

\* C6: after n >= 1 update calls Mean holds count = n and sum = the total of the
\* n values, eval() is that total over n, and it is the same for every
\* permutation of the sequence.
C6_MeanExact ==
    LET s == seen[2]
        m == statistics[2]
    IN  Len(s) >= 1 =>
            /\ m.m_count = Len(s)
            /\ m.m_sum = ExactSum(s)
            /\ MeanEval(m) = RoundQ(ExactSum(s), Len(s))
            /\ \A t \in Perms(s) : MeanEval(UpdateEach(MeanInit, t)) = MeanEval(m)

\* C6 as amended: after n >= 1 update calls Mean holds count = n and sum = the
\* left-to-right sum of the values as doubles, each addition rounded, and eval()
\* is the double quotient sum/count; whenever no addition rounds, sum is the
\* exact total and eval() is the exact average rounded once, whatever the order.
C6_MeanRoundedSum ==
    LET s == seen[2]
        m == statistics[2]
    IN  Len(s) >= 1 =>
            /\ m.m_count = Len(s)
            /\ m.m_sum = FoldSum(s)
            /\ MeanEval(m) = FDivInt(FoldSum(s), Len(s))
            /\ PartialSumsExact(s) =>
                /\ m.m_sum = ExactSum(s)
                /\ MeanEval(m) = RoundQ(ExactSum(s), Len(s))

\* C6 witness: three different values summed without rounding, whose mean is
\* none of them.
C6_Witness ==
    LET s == seen[2]
    IN  /\ Len(s) = 3
        /\ PartialSumsExact(s)
        /\ s[1] > s[2] /\ s[3] > s[1]
        /\ MeanEval(statistics[2]) \notin Range(s)

\* C7: after any non-empty sequence of update calls Std::eval is a number >= 0,
\* is the same for every permutation of the sequence, and is exactly 0 when all
\* the values are identical.
C7_StdInvariant ==
    LET s == seen[3]
        r == StdEval(statistics[3])
    IN  Len(s) >= 1 =>
            /\ r # NaN /\ r >= 0
            /\ (\A k \in DOMAIN s : s[k] = s[1]) => r = 0
            /\ \A t \in Perms(s) : StdEval(t) = r

\* C8: in every reachable state each percentile vector is sorted in
\* non-decreasing order and holds exactly the values ingested so far, each as
\* often as it was ingested; its length is the number of update calls.
C8_SortedMultiset ==
    \A k \in {4, 5} :
        LET values == statistics[k]
        IN  /\ IsSorted(values)
            /\ Len(values) = BagSize(bag)
            /\ \A v \in Range(values) \cup DOMAIN bag :
                   Cardinality({j \in DOMAIN values : values[j] = v}) = BagCount(bag, v)

\* C8 witness: five values with a duplicate, the last one arriving below two
\* values already stored.
C8_Witness ==
    /\ statistics[4] = <<DBL_LOWEST, 0, 0, Scale, DBL_MAX>>
    /\ statistics[5] = statistics[4]
    /\ val = 0

\* C9: between reads every object has ingested exactly the values extracted so
\* far, in arrival order; inside the update loop the objects before i have
\* ingested the value just read once and those from i on have not yet.
C9_LockStep ==
    /\ pc = "read" => \A k \in Objects : seen[k] = parsed
    /\ pc = "update" =>
        /\ parsed # <<>> /\ val = Last(parsed)
        /\ \A k \in Objects : seen[k] = IF k < i THEN parsed ELSE Front(parsed)
    /\ pc \in {"read", "update"} =>
        /\ statistics[3] = seen[3]
        /\ statistics[2].m_count = Len(seen[2])
        /\ Len(statistics[4]) = Len(seen[4])
        /\ Len(statistics[5]) = Len(seen[5])
        /\ alive = Objects

\* C9 witness: inside the update loop for the second of two different values,
\* three objects updated.
C9_Witness ==
    /\ pc = "update"
    /\ i = 3
    /\ Len(parsed) = 2
    /\ parsed[1] # parsed[2]

\* C10: for every size >= 1 the index Pct90::eval and Pct95::eval compute lies
\* in 0..size-1, so values[pos] is never read out of bounds.
C10_IndexInBounds == \A k \in DOMAIN index : index[k] \in 0..(size - 1)

====
